---- MODULE Spec2Model ----
(***************************************************************************)
(* Mochi Tracker: the React client (src/src/App.jsx, src/mochitracker.jsx) *)
(* and its spreadsheet backend (src/google-apps-script.js).                *)
(*                                                                         *)
(* src/src/App.jsx holds three versions of the component one after the     *)
(* other; their fetchLocation and shareLocation are the same, and the      *)
(* line numbers used here are those of the last one (lines 285-495).       *)
(* variant tells it from src/mochitracker.jsx, which posts JSON and passes *)
(* no geolocation error callback.                                          *)
(*                                                                         *)
(* Three specifications: Spec is one browser session against the backend,  *)
(* SpecBackend the endpoint under the requests of other visitors,          *)
(* SpecFormat the relative-time line for a timestamp and a time of render. *)
(*                                                                         *)
(* JavaScript values are records [t, n, s]:                                *)
(*   t = "undef" | "null" | "num" | "nan" | "str"                          *)
(*   a number carries its value in n; a string is either the decimal text  *)
(*   of n (s = "digits"), the locale rendering of instant n (s = "locale") *)
(*   or the literal text s.                                                *)
(***************************************************************************)
EXTENDS Integers, Sequences, FiniteSets, TLC

\* ------------------------------------------------------------------ bounds
MaxReports  == 1    \* clicks on the report button in one session
MaxClock    == 1    \* ticks of the wall clock in one session
MaxExternal == 3    \* requests of other visitors to the endpoint

\* --------------------------------------------------------------- JS values
JsUndef     == [t |-> "undef", n |-> 0, s |-> ""]
JsNull      == [t |-> "null",  n |-> 0, s |-> ""]
JsNaN       == [t |-> "nan",   n |-> 0, s |-> ""]
Num(k)      == [t |-> "num",   n |-> k, s |-> ""]
StrNum(k)   == [t |-> "str",   n |-> k, s |-> "digits"]
StrText(x)  == [t |-> "str",   n |-> 0, s |-> x]

\* JavaScript truthiness: undefined, null, NaN, 0 and "" are falsy.
Truthy(v) ==
    CASE v.t = "undef" -> FALSE
      [] v.t = "null"  -> FALSE
      [] v.t = "nan"   -> FALSE
      [] v.t = "num"   -> v.n # 0
      [] v.t = "str"   -> v.s # ""

\* parseFloat: a number is itself, a numeric string its value, else NaN.
parseFloat(v) ==
    CASE v.t = "num"                     -> v
      [] v.t = "str" /\ v.s = "digits"   -> Num(v.n)
      [] OTHER                           -> JsNaN

\* Number.prototype.toString
toString(v) == StrNum(v.n)

\* new Date().toLocaleString() at instant k
toLocaleString(k) == [t |-> "str", n |-> k, s |-> "locale"]

\* ------------------------------------------------------- HTTP bodies
\* A response body: the JSON of an update, the JSON of a read, plain text,
\* or a page of the hosting platform. NoBody stands for "no response yet".
NoBody              == [kind |-> "none", success |-> FALSE, lat |-> JsUndef,
                        lng |-> JsUndef, time |-> JsUndef, text |-> ""]
JsonWrite(ok, msg)  == [NoBody EXCEPT !.kind = "jsonWrite", !.success = ok,
                        !.text = msg]
JsonRead(la, ln, ti, err) ==
                       [NoBody EXCEPT !.kind = "jsonRead", !.lat = la,
                        !.lng = ln, !.time = ti, !.text = err]
TextBody(x)         == [NoBody EXCEPT !.kind = "text", !.text = x]
HtmlPage            == [NoBody EXCEPT !.kind = "html", !.text = "<html>"]

NoResponse          == [ok |-> FALSE, body |-> NoBody]
Response(isOk, b)   == [ok |-> isOk, body |-> b]

\* ------------------------------------------------------- the backend
\* The sheet's row 2, columns A..C; a fresh sheet holds empty cells.
EmptyRow      == <<StrText(""), StrText(""), StrText("")>>

ReadParams    == [action |-> JsUndef, lat |-> JsUndef, lng |-> JsUndef,
                  time |-> JsUndef]
UpdateParams(la, ln, ti) ==
                 [action |-> StrText("update"), lat |-> la, lng |-> ln,
                  time |-> ti]

\* doGet with the range written before the parameters are validated.
doGetWritesBeforeValidating(row, params, sheetOk) ==
    IF params.action = StrText("update")
    THEN IF ~sheetOk
         THEN [row |-> row, body |-> JsonWrite(FALSE, "error")]
         ELSE IF ~Truthy(params.lat) \/ ~Truthy(params.lng)
                    \/ ~Truthy(params.time)
              THEN [row  |-> <<params.lat, params.lng, params.time>>,
                    body |-> JsonWrite(FALSE, "Missing required parameters")]
              ELSE [row  |-> <<params.lat, params.lng, params.time>>,
                    body |-> JsonWrite(TRUE, "Location updated successfully")]
    ELSE IF sheetOk
         THEN [row  |-> row,
               body |-> JsonRead(row[1], row[2], row[3], "")]
         ELSE [row  |-> row,
               body |-> JsonRead(JsNull, JsNull, JsNull, "error")]

\* doGet(e): the row after the request and the body returned. sheetOk is
\* whether the spreadsheet service carries out the range operation or throws.
doGet(row, params, sheetOk) ==
    IF params.action = StrText("update")
    THEN IF ~Truthy(params.lat) \/ ~Truthy(params.lng) \/ ~Truthy(params.time)
         THEN [row  |-> row,
               body |-> JsonWrite(FALSE, "Missing required parameters")]
         ELSE IF sheetOk
              THEN [row  |-> <<params.lat, params.lng, params.time>>,
                    body |-> JsonWrite(TRUE, "Location updated successfully")]
              ELSE [row  |-> row, body |-> JsonWrite(FALSE, "error")]
    ELSE IF sheetOk
         THEN [row  |-> row,
               body |-> JsonRead(row[1], row[2], row[3], "")]
         ELSE [row  |-> row,
               body |-> JsonRead(JsNull, JsNull, JsNull, "error")]

\* doPost with latitude and longitude written to each other's column.
doPostSwapsColumns(row, contents, sheetOk) ==
    IF contents.wellFormed /\ sheetOk
    THEN [row  |-> <<contents.lng, contents.lat, contents.time>>,
          body |-> TextBody("OK")]
    ELSE [row  |-> row, body |-> TextBody("Error: ")]

\* doPost(e): contents is the posted text, parsed ([wellFormed, lat, lng, time]).
doPost(row, contents, sheetOk) ==
    IF contents.wellFormed /\ sheetOk
    THEN [row  |-> <<contents.lat, contents.lng, contents.time>>,
          body |-> TextBody("OK")]
    ELSE [row  |-> row, body |-> TextBody("Error: ")]

PostContents(la, ln, ti) == [wellFormed |-> TRUE, lat |-> la, lng |-> ln,
                             time |-> ti]
Malformed                == [wellFormed |-> FALSE, lat |-> JsUndef,
                             lng |-> JsUndef, time |-> JsUndef]

\* ------------------------------------------------------- last-seen text
\* A timestamp as the formatter receives it: absent, a native instant, or a
\* text. A text is described by its layout and its numeric groups:
\*   "slash24"  a/b/y, h:mi:sec          (the fixed DD/MM/YYYY, HH:MM:SS form)
\*   "slash12"  a/b/y, h:mi:sec AM|PM    (the locale form)
\*   "iso"      y-a-bTh:mi:sec
\*   "long"     Month b y, h:mi:sec      (a = the month's number)
\*   "words"    no date at all
\* comma says whether the text still holds its comma.
\* Instants are whole seconds since 1 January 2025, 00:00:00.
Absent          == [kind |-> "absent", at |-> 0, form |-> "", a |-> 0, b |-> 0,
                    y |-> 0, h |-> 0, mi |-> 0, sec |-> 0, pm |-> FALSE,
                    comma |-> FALSE]
Instant(k)      == [Absent EXCEPT !.kind = "instant", !.at = k]
DateText(f, a, b, y, h, mi, sec, pm, comma) ==
                   [kind |-> "text", at |-> 0, form |-> f, a |-> a, b |-> b,
                    y |-> y, h |-> h, mi |-> mi, sec |-> sec, pm |-> pm,
                    comma |-> comma]
Words           == DateText("words", 0, 0, 0, 0, 0, 0, FALSE, FALSE)

\* The result of a parse: an instant, or an invalid date.
Invalid         == [valid |-> FALSE, at |-> 0]
Valid(k)        == [valid |-> TRUE, at |-> k]

DaysBeforeMonth == <<0, 31, 59, 90, 120, 151, 181, 212, 243, 273, 304, 334>>

\* The instant of a calendar date and time of day; invalid outside the
\* calendar.
DateOf(y, mo, d, h, mi, sec) ==
    IF mo \in 1..12 /\ d \in 1..31 /\ h \in 0..23 /\ mi \in 0..59
          /\ sec \in 0..59
    THEN Valid((((y - 2025) * 365 + DaysBeforeMonth[mo] + d - 1) * 24 + h)
                  * 3600 + mi * 60 + sec)
    ELSE Invalid

\* The general-purpose date parser: slash dates are month first.
GeneralParse(x) ==
    CASE x.form = "slash24" -> DateOf(x.y, x.a, x.b, x.h, x.mi, x.sec)
      [] x.form = "slash12" ->
            IF x.h \in 1..12
            THEN DateOf(x.y, x.a, x.b,
                        (x.h % 12) + (IF x.pm THEN 12 ELSE 0), x.mi, x.sec)
            ELSE Invalid
      [] x.form = "iso"     -> DateOf(x.y, x.a, x.b, x.h, x.mi, x.sec)
      [] x.form = "long"    ->
            IF x.comma THEN Invalid
            ELSE DateOf(x.y, x.a, x.b, x.h, x.mi, x.sec)
      [] OTHER              -> Invalid

\* The fixed-form match d{1,2}/d{1,2}/d{4}, d:d:d.
MatchesDayFirst(x) == x.form = "slash24" /\ x.comma

\* The text with its first two groups exchanged (day/month -> month/day).
SwapDayMonth(x) == [x EXCEPT !.a = x.b, !.b = x.a]

StripCommas(x)  == [x EXCEPT !.comma = FALSE]

\* parseTimestamp with the retry's validity check left out.
ResolveUnchecked(x) ==
    CASE x.kind = "absent"  -> Invalid
      [] x.kind = "instant" -> Valid(x.at)
      [] MatchesDayFirst(x) -> GeneralParse(SwapDayMonth(x))
      [] OTHER ->
            IF GeneralParse(x).valid THEN GeneralParse(x)
            ELSE Valid(GeneralParse(StripCommas(x)).at)

\* Steps 1 to 6: the instant a timestamp denotes, or no instant.
Resolve(x) ==
    CASE x.kind = "absent"  -> Invalid
      [] x.kind = "instant" -> Valid(x.at)
      [] MatchesDayFirst(x) -> GeneralParse(SwapDayMonth(x))
      [] OTHER ->
            IF GeneralParse(x).valid THEN GeneralParse(x)
            ELSE GeneralParse(StripCommas(x))

\* A phrase: "just now", or a count and a unit; NoResult is nothing rendered.
NoResult        == [count |-> 0, unit |-> "no result"]
JustNow         == [count |-> 0, unit |-> "just now"]
\* Ago with the plural form for every count.
AlwaysPlural(n, one) == [count |-> n, unit |-> one \o "s"]

\* A count and its unit, singular for 1.
Ago(n, one)     == [count |-> n, unit |-> IF n = 1 THEN one ELSE one \o "s"]

\* Steps 7 to 9: the phrase for lastSeen as seen at now.
Phrase(lastSeen, now) ==
    LET delta == now - lastSeen
        m     == delta \div 60
        h     == delta \div 3600
    IN  IF delta < 0 THEN JustNow
        ELSE IF h < 1
             THEN IF m < 1 THEN JustNow ELSE Ago(m, "minute")
             ELSE IF h < 24 THEN Ago(h, "hour")
                  ELSE Ago(h \div 24, "day")

formatLastSeen(x, now) ==
    IF Resolve(x).valid THEN Phrase(Resolve(x).at, now) ELSE NoResult

NoRender        == [pc |-> "none", input |-> Absent, now |-> 0,
                    out |-> NoResult]

\* ------------------------------------------------------- client state
VARIABLES
    variant,        \* which component is mounted: "App" or "mochitracker"
    geoSupported,   \* whether navigator.geolocation exists
    location,       \* useState(null): NoLocation or <<lat, lng>>
    timestamp,      \* useState(null)
    loading,        \* useState(true)
    fetchPc,        \* fetchLocation: "sent", "responded", "done", "failed"
    fetchRes,       \* the response to the read request
    reports,        \* one record per click on the report button
    sheet,          \* the backend's row
    clock,          \* the wall clock
    extCount,       \* requests of other visitors so far
    extLast,        \* the last such request: row before, request, body
    lastWriter,     \* who set the held Sighting: 0 nobody, -1 the fetch, i report i
    fmt,            \* the last-seen line: timestamp given, time of render, text
    lastUpdate      \* what the last acknowledged write asked to store, or NoUpdate

vars == <<variant, geoSupported, location, timestamp, loading, fetchPc,
          fetchRes, reports, sheet, clock, extCount, extLast, lastWriter,
          fmt, lastUpdate>>

Variants    == {"App", "mochitracker"}
NoLocation  == <<>>
Coords      == {<<0, 77>>, <<12, 77>>}     \* pos.coords the device may give
ReportIds   == 1..MaxReports

NoRequest   == [lat |-> JsUndef, lng |-> JsUndef, time |-> JsUndef]
IdleReport  == [pc |-> "idle", geo |-> "", sent |-> 0, notice |-> "none",
                req |-> NoRequest, res |-> NoResponse, rejected |-> FALSE]

\* Rows an earlier session may have left: none, one written by doGet from the
\* query strings of App.jsx, one written by doPost from the JSON numbers of
\* mochitracker.jsx.
InitRows    == {EmptyRow,
                <<StrNum(12), StrNum(77), toLocaleString(0)>>,
                <<Num(0), Num(77), toLocaleString(0)>>}

\* No write has been acknowledged yet.
NoUpdate    == <<>>

\* The endpoint's acknowledgement of a write: doGet's success flag, doPost's
\* "OK".
Acknowledged(body) ==
    \/ body.kind = "jsonWrite" /\ body.success
    \/ body.kind = "text" /\ body.text = "OK"

NoExchange  == [kind |-> "none", params |-> ReadParams, before |-> EmptyRow,
                body |-> NoBody]

InitClient ==
    /\ variant \in Variants
    /\ geoSupported \in BOOLEAN
    /\ location = NoLocation
    /\ timestamp = JsNull
    /\ loading = TRUE
    /\ fetchPc = "sent"
    /\ fetchRes = NoResponse
    /\ reports = [i \in ReportIds |-> IdleReport]
    /\ sheet \in InitRows
    /\ clock = 0
    /\ extCount = 0
    /\ extLast = NoExchange
    /\ lastWriter = 0
    /\ lastUpdate = NoUpdate

Init ==
    /\ InitClient
    /\ fmt = NoRender

\* ------------------------------------------------------- fetchLocation
\* res.json(): the parsed body, or a rejection for anything that is not JSON.
IsJson(body) == body.kind \in {"jsonRead", "jsonWrite"}

\* FetchedSighting without the guard on the two coordinates.
FetchedSightingUnguarded(data, loc, ts) ==
    <<(<<parseFloat(data.lat), parseFloat(data.lng)>>), data.time, TRUE>>

\* The Sighting after `if (data?.lat && data?.lng) { setLocation; setTimestamp }`.
FetchedSighting(data, loc, ts) ==
    IF Truthy(data.lat) /\ Truthy(data.lng)
    THEN <<(<<parseFloat(data.lat), parseFloat(data.lng)>>), data.time, TRUE>>
    ELSE <<loc, ts, FALSE>>

\* The endpoint serves the read request.
ServeFetch ==
    /\ fetchPc = "sent"
    /\ \E sheetOk \in BOOLEAN :
         LET r == doGet(sheet, ReadParams, sheetOk) IN
           /\ fetchRes' = Response(TRUE, r.body)
           /\ sheet' = r.row
    /\ fetchPc' = "responded"
    /\ UNCHANGED <<fmt, lastUpdate, variant, geoSupported, location, timestamp, loading,
                   reports, clock, extCount, extLast, lastWriter>>

\* The hosting platform answers the read request with a page of its own.
PlatformFetch ==
    /\ fetchPc = "sent"
    /\ \E isOk \in BOOLEAN : fetchRes' = Response(isOk, HtmlPage)
    /\ fetchPc' = "responded"
    /\ UNCHANGED <<fmt, lastUpdate, variant, geoSupported, location, timestamp, loading,
                   reports, sheet, clock, extCount, extLast, lastWriter>>

\* FetchFailed without the finally block.
FetchFailedKeepsLoading ==
    /\ fetchPc' = "failed"
    /\ UNCHANGED <<fmt, lastUpdate, variant, geoSupported, location, timestamp, loading,
                   fetchRes, reports, sheet, clock, extCount, extLast,
                   lastWriter>>

\* catch (e) { console.error } finally { setLoading(false) }
FetchFailed ==
    /\ loading' = FALSE
    /\ fetchPc' = "failed"
    /\ UNCHANGED <<fmt, lastUpdate, variant, geoSupported, location, timestamp, fetchRes,
                   reports, sheet, clock, extCount, extLast, lastWriter>>

\* await fetch(API_URL) rejects: the request or its response is lost.
FetchRejected ==
    /\ fetchPc \in {"sent", "responded"}
    /\ FetchFailed

\* await fetch resolves, await res.json() settles, the rest of the handler runs.
FetchSettled ==
    /\ fetchPc = "responded"
    /\ IF IsJson(fetchRes.body)
       THEN LET s == FetchedSighting(fetchRes.body, location, timestamp) IN
              /\ location' = s[1]
              /\ timestamp' = s[2]
              /\ lastWriter' = IF s[3] THEN -1 ELSE lastWriter
              /\ loading' = FALSE
              /\ fetchPc' = "done"
              /\ UNCHANGED <<fmt, lastUpdate, variant, geoSupported, fetchRes, reports, sheet,
                             clock, extCount, extLast>>
       ELSE FetchFailed

\* ------------------------------------------------------- shareLocation
\* What the write request carries: App.jsx appends latitude.toString(),
\* longitude.toString() and now to the query; mochitracker.jsx posts the
\* numbers and now as JSON.
RequestOf(v, pos, now) ==
    IF v = "App"
    THEN [lat |-> toString(Num(pos[1])), lng |-> toString(Num(pos[2])),
          time |-> now]
    ELSE [lat |-> Num(pos[1]), lng |-> Num(pos[2]), time |-> now]

\* The alert after `await fetch` resolved. App.jsx throws on !response.ok and
\* on a body it cannot read; mochitracker.jsx looks at nothing.
WriteNotice(v, res, readable) ==
    IF v = "App"
    THEN IF res.ok /\ readable THEN "updated" ELSE "failed"
    ELSE "updated"

\* The alert of getCurrentPosition's error callback; mochitracker.jsx passes
\* no error callback.
GeoErrorNotice(v) == IF v = "App" THEN "geoerror" ELSE "none"

Triggered(i) == reports[i].pc # "idle"

\* onClick={shareLocation}
Trigger(i) ==
    /\ reports[i].pc = "idle"
    /\ \A j \in ReportIds : j < i => Triggered(j)
    /\ reports' = [reports EXCEPT ![i] =
         IF geoSupported
         THEN [@ EXCEPT !.pc = "requesting"]
         ELSE [@ EXCEPT !.pc = "done", !.notice = "unsupported"]]
    /\ UNCHANGED <<fmt, lastUpdate, variant, geoSupported, location, timestamp, loading,
                   fetchPc, fetchRes, sheet, clock, extCount, extLast,
                   lastWriter>>

\* PositionSuccess without the setTimestamp(now) call.
PositionSuccessLocationOnly(i, pos) ==
    /\ reports[i].pc = "requesting"
    /\ \E k \in clock..MaxClock :
         LET now == toLocaleString(k) IN
           /\ location' = <<Num(pos[1]), Num(pos[2])>>
           /\ reports' = [reports EXCEPT ![i] =
                [@ EXCEPT !.pc = "sent", !.geo = "granted", !.sent = @ + 1,
                          !.req = RequestOf(variant, pos, now)]]
           /\ clock' = k
    /\ lastWriter' = i
    /\ UNCHANGED <<fmt, lastUpdate, variant, geoSupported, timestamp, loading,
                   fetchPc, fetchRes, sheet, extCount, extLast>>

\* getCurrentPosition's success callback, up to `await fetch(...)`.
PositionSuccess(i, pos) ==
    /\ reports[i].pc = "requesting"
    /\ \E k \in clock..MaxClock :
         LET now == toLocaleString(k) IN
           /\ location' = <<Num(pos[1]), Num(pos[2])>>
           /\ timestamp' = now
           /\ reports' = [reports EXCEPT ![i] =
                [@ EXCEPT !.pc = "sent", !.geo = "granted", !.sent = @ + 1,
                          !.req = RequestOf(variant, pos, now)]]
           /\ clock' = k
    /\ lastWriter' = i
    /\ UNCHANGED <<fmt, lastUpdate, variant, geoSupported, loading, fetchPc, fetchRes, sheet,
                   extCount, extLast>>

\* Permission denied, or the position request errors.
PositionError(i) ==
    /\ reports[i].pc = "requesting"
    /\ reports' = [reports EXCEPT ![i] =
         [@ EXCEPT !.pc = "done", !.geo = "denied",
                   !.notice = GeoErrorNotice(variant)]]
    /\ UNCHANGED <<fmt, lastUpdate, variant, geoSupported, location, timestamp, loading,
                   fetchPc, fetchRes, sheet, clock, extCount, extLast,
                   lastWriter>>

\* The endpoint serves the write request: doGet for App.jsx's GET, doPost for
\* mochitracker.jsx's POST.
ServeWrite(v, row, req, sheetOk) ==
    IF v = "App"
    THEN doGet(row, UpdateParams(req.lat, req.lng, req.time), sheetOk)
    ELSE doPost(row, PostContents(req.lat, req.lng, req.time), sheetOk)

ServeReport(i) ==
    /\ reports[i].pc = "sent"
    /\ \E sheetOk \in BOOLEAN :
         LET r == ServeWrite(variant, sheet, reports[i].req, sheetOk) IN
           /\ sheet' = r.row
           /\ lastUpdate' = IF Acknowledged(r.body)
                            THEN <<reports[i].req.lat, reports[i].req.lng,
                                   reports[i].req.time>>
                            ELSE lastUpdate
           /\ reports' = [reports EXCEPT ![i] =
                [@ EXCEPT !.pc = "responded", !.res = Response(TRUE, r.body)]]
    /\ UNCHANGED <<fmt, variant, geoSupported, location, timestamp, loading,
                   fetchPc, fetchRes, clock, extCount, extLast, lastWriter>>

\* The hosting platform answers the write request with a page of its own.
PlatformReport(i) ==
    /\ reports[i].pc = "sent"
    /\ \E isOk \in BOOLEAN :
         reports' = [reports EXCEPT ![i] =
            [@ EXCEPT !.pc = "responded", !.res = Response(isOk, HtmlPage)]]
    /\ UNCHANGED <<fmt, lastUpdate, variant, geoSupported, location, timestamp, loading,
                   fetchPc, fetchRes, sheet, clock, extCount, extLast,
                   lastWriter>>

\* await fetch resolves; the handler reads the body and alerts.
ReportSettled(i) ==
    /\ reports[i].pc = "responded"
    /\ \E readable \in BOOLEAN :
         reports' = [reports EXCEPT ![i] =
            [@ EXCEPT !.pc = "done",
                      !.rejected = (variant = "App" /\ ~readable),
                      !.notice = WriteNotice(variant, reports[i].res,
                                            readable)]]
    /\ UNCHANGED <<fmt, lastUpdate, variant, geoSupported, location, timestamp, loading,
                   fetchPc, fetchRes, sheet, clock, extCount, extLast,
                   lastWriter>>

\* ReportRejected that sends the write request again instead of giving up.
ReportRejectedRetries(i) ==
    /\ reports[i].pc \in {"sent", "responded"}
    /\ reports' = [reports EXCEPT ![i] =
         [@ EXCEPT !.pc = "sent", !.sent = @ + 1, !.res = NoResponse]]
    /\ UNCHANGED <<fmt, lastUpdate, variant, geoSupported, location, timestamp, loading,
                   fetchPc, fetchRes, sheet, clock, extCount, extLast,
                   lastWriter>>

\* await fetch rejects: catch (e) { alert("Failed to update location") }
ReportRejected(i) ==
    /\ reports[i].pc \in {"sent", "responded"}
    /\ reports' = [reports EXCEPT ![i] =
         [@ EXCEPT !.pc = "done", !.rejected = TRUE, !.notice = "failed"]]
    /\ UNCHANGED <<fmt, lastUpdate, variant, geoSupported, location, timestamp, loading,
                   fetchPc, fetchRes, sheet, clock, extCount, extLast,
                   lastWriter>>

\* ------------------------------------------------------- the session
Next ==
    \/ ServeFetch
    \/ PlatformFetch
    \/ FetchRejected
    \/ FetchSettled
    \/ \E i \in ReportIds : Trigger(i)
    \/ \E i \in ReportIds, pos \in Coords : PositionSuccess(i, pos)
    \/ \E i \in ReportIds : PositionError(i)
    \/ \E i \in ReportIds : ServeReport(i)
    \/ \E i \in ReportIds : PlatformReport(i)
    \/ \E i \in ReportIds : ReportSettled(i)
    \/ \E i \in ReportIds : ReportRejected(i)

Spec == Init /\ [][Next]_vars

\* ------------------------------------------------------- other visitors
\* The endpoint is public: any query may reach doGet, any text doPost.
ExtParams ==
    [action : {JsUndef, StrText("update")},
     lat    : {JsUndef, StrNum(12)},
     lng    : {JsUndef, StrNum(77)},
     time   : {JsUndef, StrText(""), toLocaleString(0)}]

ExtContents == {Malformed, PostContents(Num(0), Num(77), toLocaleString(0))}

\* Another visitor's GET request reaches doGet.
ExternalGet(params) ==
    /\ extCount < MaxExternal
    /\ \E sheetOk \in BOOLEAN :
         LET r == doGet(sheet, params, sheetOk) IN
           /\ sheet' = r.row
           /\ extLast' = [kind |-> "get", params |-> params, before |-> sheet,
                          body |-> r.body]
           /\ lastUpdate' = IF Acknowledged(r.body)
                            THEN <<params.lat, params.lng, params.time>>
                            ELSE lastUpdate
    /\ extCount' = extCount + 1
    /\ UNCHANGED <<fmt, variant, geoSupported, location, timestamp, loading,
                   fetchPc, fetchRes, reports, clock, lastWriter>>

\* Another visitor's POST request reaches doPost.
ExternalPost(contents) ==
    /\ extCount < MaxExternal
    /\ \E sheetOk \in BOOLEAN :
         LET r == doPost(sheet, contents, sheetOk) IN
           /\ sheet' = r.row
           /\ extLast' = [kind |-> "post", params |-> ReadParams,
                          before |-> sheet, body |-> r.body]
           /\ lastUpdate' = IF Acknowledged(r.body)
                            THEN <<contents.lat, contents.lng, contents.time>>
                            ELSE lastUpdate
    /\ extCount' = extCount + 1
    /\ UNCHANGED <<fmt, variant, geoSupported, location, timestamp, loading,
                   fetchPc, fetchRes, reports, clock, lastWriter>>

InitBackend ==
    /\ Init
    /\ variant = "App"
    /\ geoSupported = TRUE

NextBackend ==
    \/ \E params \in ExtParams : ExternalGet(params)
    \/ \E contents \in ExtContents : ExternalPost(contents)

SpecBackend == InitBackend /\ [][NextBackend]_vars

\* ------------------------------------------------------- the last-seen line
\* 29 July 2025, 18:27:27, and the timestamps the line may be given.
SeenAt == DateOf(2025, 7, 29, 18, 27, 27).at

FormatInputs ==
    {Absent,
     Instant(SeenAt),
     DateText("slash24", 29, 7, 2025, 18, 27, 27, FALSE, TRUE),
     DateText("slash24", 7, 29, 2025, 18, 27, 27, FALSE, TRUE),
     DateText("slash12", 7, 29, 2025, 6, 27, 27, TRUE, TRUE),
     DateText("iso", 7, 29, 2025, 18, 27, 27, FALSE, FALSE),
     DateText("long", 7, 29, 2025, 18, 27, 27, FALSE, TRUE),
     Words}

\* Seconds between the sighting and the render.
Deltas == {-86400, -1, 0, 1, 30, 59, 60, 90, 119, 120, 150, 3599, 3600, 3601,
           7199, 7200, 7201, 86399, 86400, 86401, 172799, 172800, 864000}

InitFormat ==
    /\ InitClient
    /\ variant = "App"
    /\ geoSupported = TRUE
    /\ sheet = EmptyRow
    /\ \E x \in FormatInputs, d \in Deltas :
          fmt = [pc |-> "mounted", input |-> x, now |-> SeenAt + d,
                 out |-> NoResult]

\* The line is rendered: the text for the timestamp at the time of render.
RenderLastSeen ==
    /\ fmt.pc = "mounted"
    /\ fmt' = [fmt EXCEPT !.pc = "rendered",
                          !.out = formatLastSeen(fmt.input, fmt.now)]
    /\ UNCHANGED <<variant, geoSupported, location, timestamp, loading,
                   fetchPc, fetchRes, reports, sheet, clock, extCount,
                   extLast, lastWriter, lastUpdate>>

\* Time passes and the component renders again.
Rerender ==
    /\ fmt.pc = "rendered"
    /\ \E d \in Deltas :
          /\ SeenAt + d > fmt.now
          /\ fmt' = [fmt EXCEPT !.pc = "mounted", !.now = SeenAt + d]
    /\ UNCHANGED <<variant, geoSupported, location, timestamp, loading,
                   fetchPc, fetchRes, reports, sheet, clock, extCount,
                   extLast, lastWriter, lastUpdate>>

NextFormat ==
    \/ RenderLastSeen
    \/ Rerender

SpecFormat == InitFormat /\ [][NextFormat]_vars

\* ------------------------------------------------------- render
\* {loading ? ... : location ? ... : ...}: which of the three panels shows.
UiState ==
    IF loading THEN "loading"
    ELSE IF location # NoLocation THEN "sighting" ELSE "none"

\* =======================================================================
\* Properties
\* =======================================================================
\* A response body recognisable as a success indicator: JSON with a truthy
\* success flag, text containing "success", or the exact text "OK".
RecognisedSuccess(body) ==
    \/ body.kind = "jsonWrite" /\ body.success
    \/ body.kind = "text" /\ body.text \in {"OK", "success"}

ErrorNotices == {"failed", "geoerror", "unsupported"}

\* The write of report i ended in a transport failure or a non-success response.
WriteFailed(i) ==
    /\ reports[i].pc = "done"
    /\ reports[i].sent > 0
    /\ \/ reports[i].rejected
       \/ ~reports[i].res.ok
       \/ ~RecognisedSuccess(reports[i].res.body)

\* C1: App.jsx shows "location updated" only for a response whose body is a
\* recognised success indicator.
C1_UpdatedOnlyOnRecognisedSuccess ==
    \A i \in ReportIds :
        (variant = "App" /\ reports[i].notice = "updated")
            => RecognisedSuccess(reports[i].res.body)

\* C2: after a report whose write failed, the held Sighting is not one that
\* report set (it is as it was before the click), and the report ended with
\* a failure notice.
C2_FailedWriteLeavesSighting ==
    \A i \in ReportIds :
        WriteFailed(i) => (lastWriter # i /\ reports[i].notice = "failed")

\* The step in which fetchLocation ends, by its catch or by its normal path.
FetchFailsStep  == fetchPc \in {"sent", "responded"} /\ fetchPc' = "failed"
FetchParsedStep == fetchPc = "responded" /\ fetchPc' = "done"

\* C3: a fetch that fails (transport error or unparseable body) leaves the
\* Sighting as it was, shows no notice, and clears loading; once a fetch has
\* any outcome, loading is false.
C3_FetchFailureKeepsSighting ==
    /\ [][FetchFailsStep =>
            /\ location' = location
            /\ timestamp' = timestamp
            /\ reports' = reports
            /\ loading' = FALSE]_vars
    /\ [](fetchPc \in {"done", "failed"} => loading = FALSE)

C3_Witness ==
    /\ fetchPc = "failed"
    /\ fetchRes.body.kind = "html"
    /\ location # NoLocation
    /\ loading = FALSE

\* A JSON value that is a coordinate: a number or the decimal text of one.
IsCoordinate(v) == v.t = "num" \/ (v.t = "str" /\ v.s = "digits")

\* C4: a read response carrying both coordinates (0 included) replaces the
\* held Sighting by the response's coordinates and time.
C4_WellFormedResponseReplaces ==
    [][(/\ FetchParsedStep
        /\ fetchRes.body.kind = "jsonRead"
        /\ IsCoordinate(fetchRes.body.lat)
        /\ IsCoordinate(fetchRes.body.lng))
        => /\ location' = <<parseFloat(fetchRes.body.lat),
                            parseFloat(fetchRes.body.lng)>>
           /\ timestamp' = fetchRes.body.time]_vars

AllNull(body) ==
    /\ body.kind = "jsonRead"
    /\ body.lat = JsNull /\ body.lng = JsNull /\ body.time = JsNull

\* C5 as stated: a read response of three nulls leaves the client showing
\* "no sighting yet".
C5_NullReadShowsNoSighting ==
    [][(FetchParsedStep /\ AllNull(fetchRes.body)) => UiState' = "none"]_vars

\* C5 amended: a read response of three nulls clears loading and leaves the
\* held Sighting as it was, so the client shows "no sighting yet" unless a
\* report had already set a Sighting.
C5_NullReadKeepsSighting ==
    [][(FetchParsedStep /\ AllNull(fetchRes.body))
        => /\ loading' = FALSE
           /\ location' = location
           /\ timestamp' = timestamp
           /\ UiState' = IF location = NoLocation THEN "none"
                         ELSE "sighting"]_vars

C5_Witness ==
    /\ fetchPc = "done"
    /\ AllNull(fetchRes.body)
    /\ UiState = "none"

\* The phase of report i in the report action's state machine.
Phase(r) ==
    CASE r.pc = "idle"                    -> "idle"
      [] r.pc = "requesting"              -> "requesting-permission"
      [] r.pc \in {"sent", "responded"}   -> "sending"
      [] r.pc = "done" /\ r.notice = "updated"      -> "idle-with-success"
      [] r.pc = "done" /\ r.notice \in ErrorNotices -> "idle-with-error"
      [] OTHER                            -> "idle-without-notice"

PhaseSteps ==
    {<<"idle", "requesting-permission">>,
     <<"requesting-permission", "idle-with-error">>,
     <<"requesting-permission", "sending">>,
     <<"sending", "idle-with-success">>,
     <<"sending", "idle-with-error">>}

\* Some step of report i can be taken.
CanAdvance(i) ==
    \/ ENABLED (\E pos \in Coords : PositionSuccess(i, pos))
    \/ ENABLED PositionError(i)
    \/ ENABLED ServeReport(i)
    \/ ENABLED ReportSettled(i)
    \/ ENABLED ReportRejected(i)

ReportsWellFormed ==
    \A i \in ReportIds :
        /\ reports[i].sent <= 1
        /\ Phase(reports[i]) # "idle-without-notice"
        /\ Phase(reports[i]) \in {"requesting-permission", "sending"}
              => CanAdvance(i)

\* C6 as stated: in App.jsx every report moves idle -> requesting-permission
\* -> (idle-with-error | sending -> (idle-with-success | idle-with-error)),
\* sends at most one write request and ends with exactly one notice.
C6_ReportStateMachine ==
    /\ [][variant = "App" =>
            \A i \in ReportIds :
                \/ reports'[i] = reports[i]
                \/ Phase(reports'[i]) = Phase(reports[i])
                \/ <<Phase(reports[i]), Phase(reports'[i])>> \in PhaseSteps]_vars
    /\ [](variant = "App" => ReportsWellFormed)

\* C6 amended: as stated, except that a click in a browser without
\* geolocation goes from idle straight to idle-with-error.
C6_ReportStateMachineOrUnsupported ==
    /\ [][variant = "App" =>
            \A i \in ReportIds :
                \/ reports'[i] = reports[i]
                \/ Phase(reports'[i]) = Phase(reports[i])
                \/ <<Phase(reports[i]), Phase(reports'[i])>> \in PhaseSteps
                \/ /\ ~geoSupported
                   /\ Phase(reports[i]) = "idle"
                   /\ Phase(reports'[i]) = "idle-with-error"
                   /\ reports'[i].notice = "unsupported"]_vars
    /\ [](variant = "App" => ReportsWellFormed)

C6_Witness ==
    /\ variant = "App"
    /\ \E i \in ReportIds :
          /\ reports[i].pc = "done"
          /\ reports[i].sent = 1
          /\ reports[i].notice = "failed"

\* The step in which permission is denied or the position request errors.
DeniedStep(i) == reports[i].geo = "" /\ reports'[i].geo = "denied"

\* C7: on denial no write request is sent, the Sighting is retained and an
\* error notice is shown, in App.jsx and in mochitracker.jsx alike.
C7_DenialShowsError ==
    [][\A i \in ReportIds :
          DeniedStep(i) =>
            /\ reports'[i].sent = 0
            /\ reports'[i].pc = "done"
            /\ location' = location
            /\ timestamp' = timestamp
            /\ sheet' = sheet
            /\ reports'[i].notice \in ErrorNotices]_vars

\* A query parameter that is absent or empty.
Lacking(v) == v = JsUndef \/ v = StrText("")

IsUpdate(x) == x.kind = "get" /\ x.params.action = StrText("update")
IsRead(x)   == x.kind = "get" /\ x.params.action # StrText("update")

\* C10: doGet answers an update request lacking lat, lng or time with
\* success = false and leaves the row as it was; a read request leaves the
\* row as it was.
C10_IncompleteUpdateAndReadKeepRow ==
    /\ (IsUpdate(extLast) /\ (\/ Lacking(extLast.params.lat)
                              \/ Lacking(extLast.params.lng)
                              \/ Lacking(extLast.params.time)))
          => /\ extLast.body.kind = "jsonWrite"
             /\ extLast.body.success = FALSE
             /\ sheet = extLast.before
    /\ IsRead(extLast) => sheet = extLast.before

C10_Witness ==
    /\ IsUpdate(extLast)
    /\ ~Lacking(extLast.params.lat)
    /\ ~Lacking(extLast.params.lng)
    /\ Lacking(extLast.params.time)
    /\ extLast.before # EmptyRow
    /\ extLast.body.success = FALSE
    /\ sheet = extLast.before

\* The phrase for a whole-second difference delta, case by case.
PhraseFor(delta) ==
    LET m == delta \div 60
        h == delta \div 3600
        d == h \div 24
    IN  IF delta < 60 THEN [count |-> 0, unit |-> "just now"]
        ELSE IF delta < 3600
             THEN [count |-> m, unit |-> IF m = 1 THEN "minute" ELSE "minutes"]
        ELSE IF delta < 86400
             THEN [count |-> h, unit |-> IF h = 1 THEN "hour" ELSE "hours"]
        ELSE [count |-> d, unit |-> IF d = 1 THEN "day" ELSE "days"]

\* The timestamps that denote 29 July 2025, 18:27:27: the native instant, the
\* day-first text, the locale text, the ISO text and the long text.
WritingsOfSeenAt ==
    {Instant(SeenAt),
     DateText("slash24", 29, 7, 2025, 18, 27, 27, FALSE, TRUE),
     DateText("slash12", 7, 29, 2025, 6, 27, 27, TRUE, TRUE),
     DateText("iso", 7, 29, 2025, 18, 27, 27, FALSE, FALSE),
     DateText("long", 7, 29, 2025, 18, 27, 27, FALSE, TRUE)}

C9_UnparseableGivesNoResult ==
    (fmt.pc = "rendered" /\ fmt.input \in {Absent, Words})
        => fmt.out = NoResult

C9_Witness ==
    /\ fmt.pc = "rendered"
    /\ fmt.input = Words
    /\ fmt.out = NoResult

\* A read request that the endpoint answered from the sheet (no error field).
IsAnsweredRead(x) == IsRead(x) /\ x.body.kind = "jsonRead" /\ x.body.text = ""

SightingOfFetch ==
    <<(<<parseFloat(fetchRes.body.lat), parseFloat(fetchRes.body.lng)>>),
      fetchRes.body.time>>
SightingOfReport(i) ==
    <<(<<parseFloat(reports[i].req.lat), parseFloat(reports[i].req.lng)>>),
      reports[i].req.time>>

ReportedAheadOfFetch(i) ==
    /\ lastWriter = i
    /\ reports[i].pc = "sent"
    /\ fetchPc = "responded"

\* C13: the completion of a fetch that read the row before a report's write
\* does not replace the Sighting that report set.
C13_StaleFetchKeepsReportedSighting ==
    [][\A i \in ReportIds :
          (ReportedAheadOfFetch(i) /\ FetchParsedStep)
              => /\ location' = location
                 /\ timestamp' = timestamp]_vars

====
